---- MODULE Spec2Model ----
(***************************************************************************)
(* Model of the Zoom Contact Center recording archiver:                    *)
(*   src/zoom.py   Client: bearer token exchange and expiry check          *)
(*   src/main.py   get_recording_list (pagination), Recording.download,    *)
(*                 main (list, then download one at a time)                *)
(* The process is single threaded; every action below is one block of the  *)
(* code between two blocking calls.  Time is a discrete clock that may     *)
(* advance between any two actions.                                        *)
(***************************************************************************)
EXTENDS Integers, Sequences, FiniteSets, TLC

---------------------------------------------------------------------------
(* Bounds of the model *)

MaxTime == 3          \* the clock runs over 0..MaxTime
MaxLifetime == 2      \* expires_in is drawn from 1..MaxLifetime
MaxPages == 2         \* the list endpoint serves 1..MaxPages pages
MaxPerPage == 2       \* each page holds 0..MaxPerPage recordings
MaxListRequests == 3  \* list GETs counted in one run (the loop may not end)
MaxExchanges == 3     \* token POSTs sent to the OAuth endpoint in one run

(* Values of the program *)

None == -1            \* Python None: Client.token and Client.expiry_time unset
KeyAbsent == -2       \* a JSON body that has no "next_page_token" key
EmptyCursor == 0      \* the empty string "" as a cursor value

VARIABLES
    now,             \* datetime.now().timestamp()
    token,           \* Client.token
    expiry_time,     \* Client.expiry_time
    issued,          \* tokens issued so far by the OAuth endpoint
    pageSizes,       \* the list endpoint: number of recordings of each page
    lastCursor,      \* the list endpoint: cursor field of the last page
    dirState,        \* RECORDING_PATH: "exists", "creatable" or "denied"
    pc,              \* position of the process in main
    exit_status,     \* None while running, else the process exit status
    fatal,           \* the exception that ended the process, "none" otherwise
    recording_list,  \* get_recording_list's recording_list / main's list
    headers,         \* headers["Authorization"] of the function running
    next_page_token, \* params["next_page_token"]
    idx,             \* main's position in "for recording in recording_list"
    files,           \* files written under RECORDING_PATH, by recording
    exchanges,       \* history: token POSTs sent
    lastExchange,    \* history: outcome of the last token POST
    listCount,       \* history: list GETs sent, counted up to MaxListRequests
    dlCount,         \* history: download GETs sent
    lastCheck,       \* history: the last evaluation of token_has_expired
    checked,         \* history: an expiry check ran since the last GET
    lastReq,         \* history: the last list or download GET sent
    lastResp,        \* history: the last list response received
    lastOp,          \* history: the last operation performed on the client
    dlLog,           \* history: the download attempts made, in order
    mkdirs,          \* history: calls of path.mkdir
    element,         \* one element of a list response (a recording's fields)
    recording,       \* the Recording object built from element
    date_today,      \* datetime.now() as read by timeframes.last_week
    date_range       \* the dict returned by timeframes.last_week

vars == <<now, token, expiry_time, issued, pageSizes, lastCursor, dirState, pc,
          exit_status, fatal, recording_list, headers, next_page_token, idx,
          files, exchanges, lastExchange, listCount, dlCount, lastCheck,
          checked, lastReq, lastResp, lastOp, dlLog, mkdirs, element,
          recording, date_today, date_range>>

clientVars == <<token, expiry_time, issued, exchanges, lastExchange>>
serverVars == <<pageSizes, lastCursor>>
histVars == <<listCount, dlCount, lastCheck, checked, lastReq, lastResp>>
dlVars == <<dlLog, mkdirs>>
pureVars == <<element, recording, date_today, date_range>>

---------------------------------------------------------------------------
(* The remote endpoints *)

Lifetimes == 1..MaxLifetime
Statuses == {"ok", "http_error", "conn_error"}

NPages == Len(pageSizes)

RECURSIVE SumSizes(_)
SumSizes(i) == IF i = 0 THEN 0 ELSE pageSizes[i] + SumSizes(i - 1)

\* recordings of page i: consecutive recording ids, distinct across pages
PageRecordings(i) == [k \in 1..pageSizes[i] |-> SumSizes(i - 1) + k]

\* cursor field returned with page i: c_i = i for every page but the last
PageCursor(i) == IF i < NPages THEN i ELSE lastCursor

\* page served for the cursor a request carries: a request with no cursor
\* parameter, or an empty one, gets the first page
ServedPage(cursor) == IF cursor \in {KeyAbsent, EmptyCursor} THEN 1 ELSE cursor + 1

RECURSIVE ConcatPages(_)
ConcatPages(i) == IF i = 0 THEN <<>> ELSE ConcatPages(i - 1) \o PageRecordings(i)

AllRecordings == ConcatPages(NPages)

---------------------------------------------------------------------------
(* zoom.Client *)

\* Client.token_has_expired: "now > self.expiry_time".  Comparing a float
\* with None raises TypeError, so the outcome is a raise or a boolean.
token_has_expired ==
    [raises |-> expiry_time = None,
     value  |-> expiry_time # None /\ now > expiry_time]

\* get_token with "self.expiry_time = response_body["expires_in"]": the
\* lifetime stored as if it were the absolute expiry
get_token_NoClock(status, access_token, expires_in) ==
    IF status = "ok"
    THEN [token |-> access_token, expiry_time |-> expires_in, exc |-> "none"]
    ELSE [token |-> token, expiry_time |-> expiry_time,
          exc |-> IF status = "http_error" THEN "SystemExit"
                                           ELSE "ConnectionError"]

\* get_token whose except clause catches every request error, prints it
\* and goes on
get_token_SwallowsError(status, access_token, expires_in) ==
    IF status = "ok"
    THEN [token |-> access_token, expiry_time |-> now + expires_in,
          exc |-> "none"]
    ELSE [token |-> token, expiry_time |-> expiry_time, exc |-> "none"]

\* Client.get_token against a token endpoint that answers `status`; on 2xx
\* the body carries access_token and expires_in.  The result is the client's
\* fields after the call and the exception that leaves the method.
get_token(status, access_token, expires_in) ==
    CASE status = "ok" ->
           [token |-> access_token, expiry_time |-> now + expires_in,
            exc |-> "none"]
      [] status = "http_error" ->   \* raise_for_status, caught: sys.exit(1)
           [token |-> token, expiry_time |-> expiry_time, exc |-> "SystemExit"]
      [] OTHER ->                   \* requests.post raises, not an HTTPError
           [token |-> token, expiry_time |-> expiry_time,
            exc |-> "ConnectionError"]

\* the check-and-refresh step without the assignment to headers
CheckAndRefresh_StaleHeader(hdr, status, access_token, expires_in) ==
    LET e == token_has_expired
        g == get_token(status, access_token, expires_in)
    IN  IF e.raises
        THEN [token |-> token, expiry_time |-> expiry_time, headers |-> hdr,
              exc |-> "TypeError", posted |-> FALSE]
        ELSE IF e.value
        THEN [token |-> g.token, expiry_time |-> g.expiry_time,
              headers |-> hdr, exc |-> g.exc, posted |-> TRUE]
        ELSE [token |-> token, expiry_time |-> expiry_time, headers |-> hdr,
              exc |-> "none", posted |-> FALSE]

\* "if client.token_has_expired: client.get_token();
\*      headers["Authorization"] = f"Bearer {client.token}""
CheckAndRefresh(hdr, status, access_token, expires_in) ==
    LET e == token_has_expired
        g == get_token(status, access_token, expires_in)
    IN  IF e.raises
        THEN [token |-> token, expiry_time |-> expiry_time, headers |-> hdr,
              exc |-> "TypeError", posted |-> FALSE]
        ELSE IF e.value
        THEN [token |-> g.token, expiry_time |-> g.expiry_time,
              headers |-> IF g.exc = "none" THEN g.token ELSE hdr,
              exc |-> g.exc, posted |-> TRUE]
        ELSE [token |-> token, expiry_time |-> expiry_time, headers |-> hdr,
              exc |-> "none", posted |-> FALSE]

\* the client and the token endpoint after a call with result r
ClientBecomes(r, posted, status, expires_in) ==
    /\ token' = r.token
    /\ expiry_time' = r.expiry_time
    /\ exchanges' = IF posted THEN exchanges + 1 ELSE exchanges
    /\ lastExchange' =
         IF posted
         THEN [status |-> status, at |-> now,
               lifetime |-> IF status = "ok" THEN expires_in ELSE 0,
               tokenBefore |-> token, expiryBefore |-> expiry_time,
               listBefore |-> listCount, dlBefore |-> dlCount]
         ELSE lastExchange
    /\ issued' = IF posted /\ status = "ok" THEN issued + 1 ELSE issued

\* history record of one evaluation of token_has_expired: when, on which
\* expiry_time, under which grant of the token endpoint, and the outcome
CheckRecord ==
    [taken |-> TRUE, at |-> now, expiry |-> expiry_time,
     grantAt |-> IF lastExchange.status = "ok" THEN lastExchange.at ELSE None,
     lifetime |-> IF lastExchange.status = "ok" THEN lastExchange.lifetime ELSE 0,
     raised |-> token_has_expired.raises,
     result |-> token_has_expired.value]

NoCheck == [taken |-> FALSE, at |-> 0, expiry |-> None, grantAt |-> None,
            lifetime |-> 0, raised |-> FALSE, result |-> FALSE]
NoExchange == [status |-> "none", at |-> None, lifetime |-> 0,
               tokenBefore |-> None, expiryBefore |-> None,
               listBefore |-> 0, dlBefore |-> 0]
NoChecked == [done |-> FALSE, token |-> None, notExpired |-> FALSE]
NoReq == [kind |-> "none", auth |-> None, token |-> None, checked |-> FALSE,
          fresh |-> FALSE, query |-> {}, cursor |-> KeyAbsent,
          prevCursor |-> EmptyCursor, rec |-> 0]
NoResp == [status |-> "none", recordings |-> <<>>, cursor |-> KeyAbsent]
NoOp == [op |-> "none", prev |-> "none", exc |-> "none", posted |-> FALSE,
         prevPosted |-> FALSE, tokenBefore |-> None, expiryBefore |-> None]

\* history record of a call on the client that follows the call lastOp
OpRecord(op, exc, posted) ==
    [op |-> op, prev |-> lastOp.op, exc |-> exc, posted |-> posted,
     prevPosted |-> lastOp.posted, tokenBefore |-> token,
     expiryBefore |-> expiry_time]

\* the process ends: sys.exit(1), exit(1) or an exception nobody catches
\* (the interpreter prints the traceback and exits with status 1)
Terminates(exc) ==
    /\ pc' = "exit"
    /\ exit_status' = 1
    /\ fatal' = exc

---------------------------------------------------------------------------
(* main.Recording *)

ChannelTypes == <<"voice", "video", "chat", "sms">>

\* __init__ with the extension chosen the other way round: mp4 for video,
\* mp3 for everything else
Recording_Mp4OnlyForVideo(start_time, engagement_id, channel_type, recording_id, download_url) ==
    [start_time |-> start_time,
     engagement_id |-> engagement_id,
     channel_type |-> channel_type,
     recording_id |-> recording_id,
     download_url |-> download_url,
     filename |-> <<start_time, "_", engagement_id, "_", recording_id, ".",
                    IF channel_type = "video" THEN "mp4" ELSE "mp3">>]

\* Recording.__init__: the five attributes and the derived filename, the
\* f-string "{start_time}_{engagement_id}_{recording_id}.{ext}" kept as the
\* sequence of its pieces
Recording(start_time, engagement_id, channel_type, recording_id, download_url) ==
    [start_time |-> start_time,
     engagement_id |-> engagement_id,
     channel_type |-> channel_type,
     recording_id |-> recording_id,
     download_url |-> download_url,
     filename |-> <<start_time, "_", engagement_id, "_", recording_id, ".",
                    IF channel_type = "voice" THEN "mp3" ELSE "mp4">>]

\* the element of the list response that stands behind recording id r; the
\* channel types follow one another (nothing filters them: the
\* channel_type parameter is never sent)
ElementOf(r) ==
    [recording_start_time |-> "2023-10-05T12:00:00",
     engagement_id |-> "E1",
     channel_type |-> ChannelTypes[((r - 1) % Len(ChannelTypes)) + 1],
     recording_id |-> r,
     download_url |-> r]

\* "Recording(recording["recording_start_time"], recording["engagement_id"],
\*  recording["channel_type"], recording["recording_id"],
\*  recording["download_url"])"
RecordingFrom(e) ==
    Recording(e.recording_start_time, e.engagement_id, e.channel_type,
              e.recording_id, e.download_url)

\* recording_list holds recording ids; the object appended for id r is
RecordingOf(r) == RecordingFrom(ElementOf(r))

\* "filename = Path(path, self.filename)"
FileOf(r) == RecordingOf(r).filename

NoElement == [recording_start_time |-> "", engagement_id |-> "",
              channel_type |-> "", recording_id |-> 0, download_url |-> 0]
NoRecording == [start_time |-> "", engagement_id |-> "", channel_type |-> "",
                recording_id |-> 0, download_url |-> 0, filename |-> <<>>]
NoRange == [from |-> <<>>, to |-> <<>>]

\* RECORDING_PATH as a partial function from file name to content
NoFiles == [f \in {} |-> "old"]
Content(fs, f) == IF f \in DOMAIN fs THEN fs[f] ELSE "absent"
Written(fs, f, content) ==
    IF content = "absent" THEN fs
    ELSE [g \in DOMAIN fs \cup {f} |-> IF g = f THEN content ELSE fs[g]]

\* the directory step with the PermissionError logged and nothing else
EnsureDirectory_IgnoresError(dir) ==
    CASE dir = "exists" ->
           [dirState |-> "exists", mkdir |-> FALSE, exc |-> "none"]
      [] dir = "creatable" ->
           [dirState |-> "exists", mkdir |-> TRUE, exc |-> "none"]
      [] OTHER ->
           [dirState |-> dir, mkdir |-> TRUE, exc |-> "none"]

\* Recording.download, lines 87-93: the directory is created when missing; a
\* PermissionError ends the process through exit(1)
EnsureDirectory(dir) ==
    CASE dir = "exists" ->
           [dirState |-> "exists", mkdir |-> FALSE, exc |-> "none"]
      [] dir = "creatable" ->
           [dirState |-> "exists", mkdir |-> TRUE, exc |-> "none"]
      [] OTHER ->
           [dirState |-> dir, mkdir |-> TRUE, exc |-> "SystemExit"]

DownloadStatuses == Statuses \cup {"stream_error"}

\* download with the fatal policy of the listing: sys.exit(1) in the except
\* clause, as its docstring announces
HandleDownload_FatalOnHttpError(status, content) ==
    CASE status = "ok" ->
           [content |-> "new", exc |-> "none", returned |-> TRUE]
      [] status = "http_error" ->
           [content |-> content, exc |-> "SystemExit", returned |-> FALSE]
      [] status = "stream_error" ->
           [content |-> "partial", exc |-> "ChunkedEncodingError",
            returned |-> FALSE]
      [] OTHER ->
           [content |-> content, exc |-> "ConnectionError",
            returned |-> FALSE]

\* download with the file opened before raise_for_status: "wb" truncates
HandleDownload_OpensFirst(status, content) ==
    CASE status = "ok" ->
           [content |-> "new", exc |-> "none", returned |-> TRUE]
      [] status = "http_error" ->
           [content |-> "partial", exc |-> "none", returned |-> TRUE]
      [] status = "stream_error" ->
           [content |-> "partial", exc |-> "ChunkedEncodingError",
            returned |-> FALSE]
      [] OTHER ->
           [content |-> "partial", exc |-> "ConnectionError",
            returned |-> FALSE]

\* Recording.download, lines 101-111: the GET, raise_for_status, the write
\* of the chunks, "except requests.HTTPError" and "return True".  The result
\* is the file's content afterwards, the exception that leaves the method
\* and whether the method returned True.
HandleDownload(status, content) ==
    CASE status = "ok" ->               \* open(filename, "wb"), every chunk
           [content |-> "new", exc |-> "none", returned |-> TRUE]
      [] status = "http_error" ->       \* raised before open; caught
           [content |-> content, exc |-> "none", returned |-> TRUE]
      [] status = "stream_error" ->     \* iter_content raises mid-stream
           [content |-> "partial", exc |-> "ChunkedEncodingError",
            returned |-> FALSE]
      [] OTHER ->                       \* req.get raises: not an HTTPError
           [content |-> content, exc |-> "ConnectionError",
            returned |-> FALSE]

\* main, lines 179-182: the value download returns is dropped and no list
\* of failed recordings is kept, so the run reports none
ReportedFailures == {}

\* history record of one download attempt
DownloadRecord(r, status, before, h) ==
    [rec |-> r, status |-> status, before |-> before, after |-> h.content,
     exc |-> h.exc, returned |-> h.returned]

---------------------------------------------------------------------------
(* The client on its own: a caller that uses zoom.Client in any order *)

ServerConfigs ==
    { s \in UNION { [1..n -> 0..MaxPerPage] : n \in 1..MaxPages } : TRUE }

InitCommon ==
    /\ now = 0
    /\ token = None                       \* Client.__init__
    /\ expiry_time = None
    /\ issued = 0
    /\ exit_status = None
    /\ fatal = "none"
    /\ recording_list = <<>>
    /\ headers = None
    /\ next_page_token = EmptyCursor
    /\ idx = 0
    /\ exchanges = 0
    /\ lastExchange = NoExchange
    /\ listCount = 0
    /\ dlCount = 0
    /\ lastCheck = NoCheck
    /\ checked = NoChecked
    /\ lastReq = NoReq
    /\ lastResp = NoResp
    /\ lastOp = NoOp
    /\ dlLog = <<>>
    /\ mkdirs = 0

InitClient ==
    /\ InitCommon
    /\ pageSizes = <<0>>
    /\ lastCursor = EmptyCursor
    /\ dirState = "exists"
    /\ files = NoFiles
    /\ pc = "client"
    /\ element = NoElement
    /\ recording = NoRecording
    /\ date_today = 1
    /\ date_range = NoRange

mainVars == <<pageSizes, lastCursor, dirState, recording_list, headers,
              next_page_token, idx, files, listCount, dlCount, checked,
              lastReq, lastResp, dlVars, pureVars>>

\* a caller reads client.token_has_expired
ClientQuery ==
    /\ pc = "client"
    /\ lastCheck' = CheckRecord
    /\ lastOp' = OpRecord("query",
                           IF token_has_expired.raises THEN "TypeError"
                                                       ELSE "none",
                           FALSE)
    /\ UNCHANGED <<now, clientVars, pc, exit_status, fatal, mainVars>>

\* a caller calls client.get_token()
ClientGetToken ==
    /\ pc = "client"
    /\ exchanges < MaxExchanges
    /\ \E status \in Statuses, L \in Lifetimes :
         LET g == get_token(status, issued + 1, L) IN
         /\ ClientBecomes(g, TRUE, status, L)
         /\ lastOp' = OpRecord("get_token", g.exc, TRUE)
         /\ IF g.exc = "none"
            THEN UNCHANGED <<pc, exit_status, fatal>>
            ELSE Terminates(g.exc)
    /\ UNCHANGED <<now, lastCheck, mainVars>>

\* a caller performs the check-and-refresh step of main.py 143-147 / 96-100
ClientEnsureFresh ==
    /\ pc = "client"
    /\ \E status \in Statuses, L \in Lifetimes :
         LET r == CheckAndRefresh(headers, status, issued + 1, L) IN
         /\ r.posted => exchanges < MaxExchanges
         /\ ClientBecomes(r, r.posted, status, L)
         /\ headers' = r.headers
         /\ lastCheck' = CheckRecord
         /\ lastOp' = OpRecord("ensure", r.exc, r.posted)
         /\ IF r.exc \in {"none", "TypeError"}
            THEN UNCHANGED <<pc, exit_status, fatal>>
            ELSE Terminates(r.exc)
    /\ UNCHANGED <<now, pageSizes, lastCursor, dirState, recording_list,
                   next_page_token, idx, files, listCount, dlCount, checked,
                   lastReq, lastResp, dlVars, pureVars>>

\* time passes between two calls
ClientTick ==
    /\ pc = "client"
    /\ now < MaxTime
    /\ now' = now + 1
    /\ lastOp' = OpRecord("tick", "none", FALSE)
    /\ UNCHANGED <<clientVars, pc, exit_status, fatal, lastCheck, mainVars>>

NextClient ==
    \/ ClientQuery
    \/ ClientGetToken
    \/ ClientEnsureFresh
    \/ ClientTick

SpecClient == InitClient /\ [][NextClient]_vars

---------------------------------------------------------------------------
(* Recording on its own: an object is built from any element of a list    *)
(* response and downloaded once, with a client used as above               *)

StartTimes == {"2023-10-05T12:00:00", "2023-10-06T08:30:00"}
EngagementIds == {"E1", "E2"}
RecordingIds == 1..2

Elements ==
    { [recording_start_time |-> st, engagement_id |-> e, channel_type |-> c,
       recording_id |-> r, download_url |-> r] :
        st \in StartTimes, e \in EngagementIds,
        c \in {ChannelTypes[k] : k \in DOMAIN ChannelTypes}, r \in RecordingIds }

InitRecording ==
    /\ InitCommon
    /\ pageSizes = <<0>>
    /\ lastCursor = EmptyCursor
    /\ dirState = "exists"
    /\ files = NoFiles
    /\ pc = "client"
    /\ element \in Elements
    /\ recording = NoRecording
    /\ date_today = 1
    /\ date_range = NoRange

\* "Recording(recording["recording_start_time"], ...)" on the element
RecordingInit ==
    /\ pc = "client"
    /\ recording = NoRecording
    /\ recording' = RecordingFrom(element)
    /\ lastOp' = OpRecord("Recording", "none", FALSE)
    /\ UNCHANGED <<now, clientVars, pc, exit_status, fatal, lastCheck,
                   pageSizes, lastCursor, dirState, recording_list, headers,
                   next_page_token, idx, files, listCount, dlCount, checked,
                   lastReq, lastResp, dlVars, element, date_today,
                   date_range>>

\* recording.download(client, path), the whole method: the directory, the
\* check-and-refresh step, the GET and the write.  No attribute of the
\* object is assigned.
RecordingDownload ==
    /\ pc = "client"
    /\ recording # NoRecording
    /\ dlLog = <<>>
    /\ \E status \in DownloadStatuses, tstatus \in Statuses, L \in Lifetimes :
         LET d == EnsureDirectory(dirState)
             r == CheckAndRefresh(token, tstatus, issued + 1, L)
             before == Content(files, recording.filename)
             h == HandleDownload(status, before)
             atCheck == d.exc = "none"
             atGet == atCheck /\ r.exc = "none"
             exc == IF ~atCheck THEN d.exc ELSE IF ~atGet THEN r.exc ELSE h.exc
         IN  /\ (atCheck /\ r.posted) => exchanges < MaxExchanges
             /\ dirState' = d.dirState
             /\ mkdirs' = IF d.mkdir THEN mkdirs + 1 ELSE mkdirs
             /\ IF atCheck
                THEN /\ ClientBecomes(r, r.posted, tstatus, L)
                     /\ headers' = r.headers
                     /\ lastCheck' = CheckRecord
                ELSE /\ headers' = token
                     /\ UNCHANGED <<clientVars, lastCheck>>
             /\ IF atGet
                THEN /\ files' = Written(files, recording.filename, h.content)
                     /\ dlLog' = Append(dlLog,
                           DownloadRecord(recording.recording_id, status, before, h))
                     /\ dlCount' = dlCount + 1
                ELSE UNCHANGED <<files, dlLog, dlCount>>
             /\ lastOp' = OpRecord("download", exc, atCheck /\ r.posted)
             /\ IF exc = "none"
                THEN UNCHANGED <<pc, exit_status, fatal>>
                ELSE Terminates(exc)
    /\ UNCHANGED <<now, pageSizes, lastCursor, recording_list,
                   next_page_token, idx, listCount, checked, lastReq,
                   lastResp, pureVars>>

NextRecording ==
    \/ RecordingInit
    \/ RecordingDownload
    \/ ClientGetToken
    \/ ClientTick

SpecRecording == InitRecording /\ [][NextRecording]_vars

---------------------------------------------------------------------------
(* timeframes.py: last_week, applied on any day of one year               *)

\* the calendar the dates are taken from: December 2022, then the twelve
\* months of 2023; day 1 of the calendar is 2022-12-01, a Thursday
DaysIn2023 == <<31, 28, 31, 30, 31, 30, 31, 31, 30, 31, 30, 31>>

Calendar ==
    <<[year |-> 2022, month |-> 12, days |-> 31]>> \o
    [m \in 1..12 |-> [year |-> 2023, month |-> m, days |-> DaysIn2023[m]]]

RECURSIVE DaysFrom(_)
DaysFrom(k) == IF k > Len(Calendar) THEN 0 ELSE Calendar[k].days + DaysFrom(k + 1)

CalendarDays == DaysFrom(1)

\* the date (year, month, day) of the n-th day of the calendar
RECURSIVE DateAt(_, _)
DateAt(n, k) ==
    IF n <= Calendar[k].days
    THEN <<Calendar[k].year, Calendar[k].month, n>>
    ELSE DateAt(n - Calendar[k].days, k + 1)

date(n) == DateAt(n, 1)

\* datetime.weekday(): Monday is 0, Sunday is 6
weekday(n) == (n + 2) % 7

\* the day of the calendar a date is
Ordinal(d) == CHOOSE n \in 1..CalendarDays : date(n) = d

\* the days datetime.now() may fall on: every day of 2023
Todays == (Calendar[1].days + 1)..CalendarDays

\* datetime(y, m, d, hh, mm, ss).isoformat(timespec="seconds"), as its fields
isoformat(components, hh, mm, ss) == components \o <<hh, mm, ss>>

\* last_week(): timedelta(days=6 + date_today.day) and
\* timedelta(days=date_today.day) with .day the day of the month; the dates
\* go through str(...).split("-") back into datetime(...)
last_week(today) ==
    LET day == date(today)[3]
        beginning_last_week == today - (6 + day)
        end_last_week == today - day
        start_date_components == date(beginning_last_week)
        end_date_components == date(end_last_week)
    IN  [from |-> isoformat(start_date_components, 0, 0, 0),
         to |-> isoformat(end_date_components, 23, 59, 59)]

InitTimeframes ==
    /\ InitCommon
    /\ pageSizes = <<0>>
    /\ lastCursor = EmptyCursor
    /\ dirState = "exists"
    /\ files = NoFiles
    /\ pc = "client"
    /\ element = NoElement
    /\ recording = NoRecording
    /\ date_today \in Todays
    /\ date_range = NoRange

\* one call of last_week() on the day date_today
LastWeek ==
    /\ pc = "client"
    /\ date_range = NoRange
    /\ date_range' = last_week(date_today)
    /\ lastOp' = OpRecord("last_week", "none", FALSE)
    /\ UNCHANGED <<now, clientVars, pc, exit_status, fatal, lastCheck,
                   pageSizes, lastCursor, dirState, recording_list, headers,
                   next_page_token, idx, files, listCount, dlCount, checked,
                   lastReq, lastResp, dlVars, element, recording,
                   date_today>>

NextTimeframes == LastWeek

SpecTimeframes == InitTimeframes /\ [][NextTimeframes]_vars

---------------------------------------------------------------------------
(* main.py: main, get_recording_list, Recording.download *)

Init ==
    /\ InitCommon
    /\ pageSizes \in ServerConfigs
    /\ lastCursor \in {EmptyCursor, KeyAbsent}
    /\ dirState \in {"exists", "creatable", "denied"}
    /\ files \in {NoFiles} \cup
                 (IF dirState = "exists" /\ pageSizes[1] > 0
                  THEN {Written(NoFiles, FileOf(1), "old")} ELSE {})
    /\ pc = "main"
    /\ element = NoElement
    /\ recording = NoRecording
    /\ date_today = CalendarDays          \* the run takes place on 2023-12-31
    /\ date_range = NoRange

\* the state of the check-and-refresh step that has just run with result r
CheckedRecord(r) ==
    [done |-> TRUE, token |-> r.token,
     notExpired |-> r.expiry_time # None /\ ~(now > r.expiry_time)]

\* main: "client = Client(...); client.get_token()"
MainGetToken ==
    /\ pc = "main"
    /\ \E status \in Statuses, L \in Lifetimes :
         LET g == get_token(status, issued + 1, L) IN
         /\ ClientBecomes(g, TRUE, status, L)
         /\ IF g.exc = "none"
            THEN pc' = "list_begin" /\ UNCHANGED <<exit_status, fatal>>
            ELSE Terminates(g.exc)
    /\ UNCHANGED <<now, serverVars, dirState, recording_list, headers,
                   next_page_token, idx, files, histVars, lastOp, dlVars, pureVars>>

\* get_recording_list, before the loop: recording_list, headers and params
ListBegin ==
    /\ pc = "list_begin"
    /\ recording_list' = <<>>
    /\ headers' = token
    /\ next_page_token' = EmptyCursor
    /\ date_range' = last_week(date_today)      \* **date_range() in params
    /\ pc' = "list_check"
    /\ UNCHANGED <<now, clientVars, serverVars, dirState, exit_status, fatal,
                   idx, files, histVars, lastOp, dlVars, element, recording,
                   date_today>>

\* the loop may go round for ever; past MaxListRequests rounds the model
\* follows it only while it accumulates nothing, so that recording_list
\* stays bounded
WithinBudget == listCount < MaxListRequests \/ lastResp.recordings = <<>>

\* the check-and-refresh step at the head of the pagination loop
ListCheck ==
    /\ pc = "list_check"
    /\ WithinBudget
    /\ \E status \in Statuses, L \in Lifetimes :
         LET r == CheckAndRefresh(headers, status, issued + 1, L) IN
         /\ ClientBecomes(r, r.posted, status, L)
         /\ headers' = r.headers
         /\ lastCheck' = CheckRecord
         /\ checked' = CheckedRecord(r)
         /\ IF r.exc = "none"
            THEN pc' = "list_get" /\ UNCHANGED <<exit_status, fatal>>
            ELSE Terminates(r.exc)
    /\ UNCHANGED <<now, serverVars, dirState, recording_list, next_page_token,
                   idx, files, listCount, dlCount, lastReq, lastResp, lastOp, dlVars, pureVars>>

\* the cursor field of the response before this request, empty when there
\* was none
PrecedingCursor ==
    IF lastResp.status = "ok" THEN lastResp.cursor ELSE EmptyCursor

\* the list GET as sent: "req.get(endpoint, headers=headers, timeout=3000)".
\* params is not among the arguments, so the request carries no query
\* parameter: no from, to, channel_type, and no cursor.
ListRequest ==
    [kind |-> "list", auth |-> headers, token |-> token,
     checked |-> checked.done, fresh |-> checked.notExpired,
     query |-> {}, cursor |-> KeyAbsent, prevCursor |-> PrecedingCursor,
     rec |-> 0]

\* the answer of the list endpoint to request req
ListAnswer(req, status) ==
    IF status = "ok"
    THEN [status |-> "ok",
          recordings |-> PageRecordings(ServedPage(req.cursor)),
          cursor |-> PageCursor(ServedPage(req.cursor))]
    ELSE [status |-> status, recordings |-> <<>>, cursor |-> KeyAbsent]

\* the loop body with an except clause that logs and falls through to
\* "return recording_list"
HandleListResponse_ReturnsPartial(resp) ==
    CASE resp.status = "http_error" ->
           [recording_list |-> recording_list,
            next_page_token |-> next_page_token,
            exc |-> "none", break |-> TRUE]
      [] resp.status = "conn_error" ->
           [recording_list |-> recording_list,
            next_page_token |-> next_page_token,
            exc |-> "ConnectionError", break |-> FALSE]
      [] resp.status = "ok" /\ resp.cursor = KeyAbsent ->
           [recording_list |-> recording_list \o resp.recordings,
            next_page_token |-> next_page_token,
            exc |-> "KeyError", break |-> FALSE]
      [] OTHER ->
           [recording_list |-> recording_list \o resp.recordings,
            next_page_token |-> resp.cursor,
            exc |-> "none", break |-> (resp.cursor = EmptyCursor)]

\* the loop body with the break taken on a page without recordings
HandleListResponse_StopsOnEmptyPage(resp) ==
    CASE resp.status = "http_error" ->
           [recording_list |-> recording_list,
            next_page_token |-> next_page_token,
            exc |-> "SystemExit", break |-> FALSE]
      [] resp.status = "conn_error" ->
           [recording_list |-> recording_list,
            next_page_token |-> next_page_token,
            exc |-> "ConnectionError", break |-> FALSE]
      [] resp.status = "ok" /\ resp.cursor = KeyAbsent ->
           [recording_list |-> recording_list \o resp.recordings,
            next_page_token |-> next_page_token,
            exc |-> "KeyError", break |-> FALSE]
      [] OTHER ->
           [recording_list |-> recording_list \o resp.recordings,
            next_page_token |-> resp.cursor,
            exc |-> "none",
            break |-> (resp.cursor = EmptyCursor \/ resp.recordings = <<>>)]

\* the body of the loop after the GET: raise_for_status, the appends, the
\* cursor assignment and the break; "except requests.HTTPError: sys.exit(1)"
HandleListResponse(resp) ==
    CASE resp.status = "http_error" ->
           [recording_list |-> recording_list,
            next_page_token |-> next_page_token,
            exc |-> "SystemExit", break |-> FALSE]
      [] resp.status = "conn_error" ->
           [recording_list |-> recording_list,
            next_page_token |-> next_page_token,
            exc |-> "ConnectionError", break |-> FALSE]
      [] resp.status = "ok" /\ resp.cursor = KeyAbsent ->
           [recording_list |-> recording_list \o resp.recordings,
            next_page_token |-> next_page_token,
            exc |-> "KeyError", break |-> FALSE]
      [] OTHER ->
           [recording_list |-> recording_list \o resp.recordings,
            next_page_token |-> resp.cursor,
            exc |-> "none", break |-> (resp.cursor = EmptyCursor)]

\* one list GET and the handling of its response
ListGet ==
    /\ pc = "list_get"
    /\ \E status \in Statuses :
         LET req == ListRequest
             resp == ListAnswer(req, status)
             h == HandleListResponse(resp)
         IN  /\ lastReq' = req
             /\ lastResp' = resp
             /\ listCount' = IF listCount < MaxListRequests
                             THEN listCount + 1 ELSE listCount
             /\ checked' = NoChecked
             /\ recording_list' = h.recording_list
             /\ next_page_token' = h.next_page_token
             /\ IF h.exc # "none"
                THEN Terminates(h.exc)
                ELSE /\ pc' = IF h.break THEN "list_return" ELSE "list_check"
                     /\ UNCHANGED <<exit_status, fatal>>
    /\ UNCHANGED <<now, clientVars, serverVars, dirState, headers, idx, files,
                   dlCount, lastCheck, lastOp, dlVars, pureVars>>

\* get_recording_list returns; main: "if recording_list:"
ListReturn ==
    /\ pc = "list_return"
    /\ IF recording_list = <<>>
       THEN pc' = "done" /\ exit_status' = 0 /\ idx' = idx
       ELSE pc' = "dl_begin" /\ exit_status' = exit_status /\ idx' = 1
    /\ UNCHANGED <<now, clientVars, serverVars, dirState, fatal,
                   recording_list, headers, next_page_token, files, histVars,
                   lastOp, dlVars, pureVars>>

\* Recording.download up to the session: headers, then the directory
DlBegin ==
    /\ pc = "dl_begin"
    /\ headers' = token
    /\ LET d == EnsureDirectory(dirState) IN
         /\ dirState' = d.dirState
         /\ mkdirs' = IF d.mkdir THEN mkdirs + 1 ELSE mkdirs
         /\ IF d.exc = "none"
            THEN pc' = "dl_check" /\ UNCHANGED <<exit_status, fatal>>
            ELSE Terminates(d.exc)
    /\ UNCHANGED <<now, clientVars, serverVars, recording_list,
                   next_page_token, idx, files, histVars, lastOp, dlLog,
                   pureVars>>

\* the check-and-refresh step of Recording.download
DlCheck ==
    /\ pc = "dl_check"
    /\ \E status \in Statuses, L \in Lifetimes :
         LET r == CheckAndRefresh(headers, status, issued + 1, L) IN
         /\ ClientBecomes(r, r.posted, status, L)
         /\ headers' = r.headers
         /\ lastCheck' = CheckRecord
         /\ checked' = CheckedRecord(r)
         /\ IF r.exc = "none"
            THEN pc' = "dl_get" /\ UNCHANGED <<exit_status, fatal>>
            ELSE Terminates(r.exc)
    /\ UNCHANGED <<now, serverVars, dirState, recording_list, next_page_token,
                   idx, files, listCount, dlCount, lastReq, lastResp, lastOp, dlVars, pureVars>>

\* main walking the list from its end: "for recording in reversed(...)"
DownloadRequest_Reversed ==
    [kind |-> "download", auth |-> headers, token |-> token,
     checked |-> checked.done, fresh |-> checked.notExpired,
     query |-> {}, cursor |-> KeyAbsent, prevCursor |-> PrecedingCursor,
     rec |-> recording_list[Len(recording_list) - idx + 1]]

\* the download GET as sent: "req.get(self.download_url, headers=headers, ...)"
DownloadRequest ==
    [kind |-> "download", auth |-> headers, token |-> token,
     checked |-> checked.done, fresh |-> checked.notExpired,
     query |-> {}, cursor |-> KeyAbsent, prevCursor |-> PrecedingCursor,
     rec |-> recording_list[idx]]

\* the download GET of recording_list[idx], the write of the file, and
\* main's step to the next recording
DlGet ==
    /\ pc = "dl_get"
    /\ lastReq' = DownloadRequest
    /\ dlCount' = dlCount + 1
    /\ checked' = NoChecked
    /\ \E status \in DownloadStatuses :
         LET r == DownloadRequest.rec
             before == Content(files, FileOf(r))
             h == HandleDownload(status, before)
         IN  /\ files' = Written(files, FileOf(r), h.content)
             /\ dlLog' = Append(dlLog, DownloadRecord(r, status, before, h))
             /\ IF h.exc # "none"
                THEN Terminates(h.exc) /\ idx' = idx
                ELSE /\ UNCHANGED fatal
                     /\ IF idx < Len(recording_list)   \* main: next recording
                        THEN /\ pc' = "dl_begin"
                             /\ idx' = idx + 1
                             /\ UNCHANGED exit_status
                        ELSE /\ pc' = "done"            \* "Finished!"
                             /\ idx' = idx
                             /\ exit_status' = 0
    /\ UNCHANGED <<now, clientVars, serverVars, dirState, recording_list,
                   headers, next_page_token, listCount, lastCheck, lastResp,
                   lastOp, mkdirs, pureVars>>

\* time passes while the process runs
Tick ==
    /\ pc \notin {"exit", "done", "client"}
    /\ now < MaxTime
    /\ now' = now + 1
    /\ UNCHANGED <<clientVars, serverVars, dirState, pc, exit_status, fatal,
                   recording_list, headers, next_page_token, idx, files,
                   histVars, lastOp, dlVars, pureVars>>

Next ==
    \/ MainGetToken
    \/ ListBegin
    \/ ListCheck
    \/ ListGet
    \/ ListReturn
    \/ DlBegin
    \/ DlCheck
    \/ DlGet
    \/ Tick

Spec == Init /\ [][Next]_vars

\* the interpreter always takes the next step of a process that has one:
\* every blocking call returns or raises (the requests carry a timeout)
FairSpec == Spec /\ WF_vars(Next)

---------------------------------------------------------------------------
(* Properties *)

IsPrefix(s, t) == Len(s) =< Len(t) /\ \A i \in 1..Len(s) : s[i] = t[i]

ExchangeFailed == lastExchange.status \in {"http_error", "conn_error"}
InListLoop == pc \in {"list_check", "list_get"}
AfterListing == pc \in {"list_return", "dl_begin", "dl_check", "dl_get", "done"}

\* the process was ended by a failed token exchange, with no list request
\* after the failure
EndedByTokenFailure ==
    pc = "exit" /\ ExchangeFailed /\ lastExchange.listBefore = listCount

\* C1: when the list endpoint serves N pages, the last with an empty cursor,
\* get_recording_list issues exactly N list GETs and then returns: it never
\* issues more than N, and it has issued N when it returns.
C1_ExactlyNRequests ==
    lastCursor = EmptyCursor =>
        /\ listCount =< NPages
        /\ pc = "list_return" => listCount = NPages

\* C2: at every point the accumulated recording list is a prefix of the
\* concatenation of the pages' recordings in page order, and the list
\* returned is the whole concatenation.
C2_ListIsConcatenation ==
    /\ IsPrefix(recording_list, AllRecordings)
    /\ pc = "list_return" => recording_list = AllRecordings

\* C3: after a successful get_token at time T with expires_in = L,
\* token_has_expired is true at every query time t >= T + L and false at
\* every t < T + L.
C3_ExpiryBoundary ==
    (lastCheck.taken /\ lastCheck.grantAt # None) =>
        /\ ~lastCheck.raised
        /\ lastCheck.result <=>
               (lastCheck.at >= lastCheck.grantAt + lastCheck.lifetime)

\* C4: on a client on which no token has ever been fetched,
\* token_has_expired returns true, and the check-and-refresh step performs
\* an exchange instead of failing.
C4_UnsetClientReportsExpired ==
    (lastCheck.taken /\ lastCheck.expiry = None) =>
        /\ ~lastCheck.raised
        /\ lastCheck.result
        /\ lastOp.op = "ensure" => (lastOp.posted /\ lastOp.exc # "TypeError")

\* C5: every list GET and every download GET is sent right after an expiry
\* check, with no other GET in between; when that check finds the token
\* expired a successful exchange has happened at the check; and the request
\* carries the client's current token, which the check left not expired.
C5_FreshTokenBeforeRequest ==
    /\ lastReq.kind # "none" =>
           /\ lastReq.checked
           /\ lastReq.fresh
           /\ lastReq.auth = lastReq.token
    /\ pc \in {"list_get", "dl_get"} =>
           /\ checked.done
           /\ checked.notExpired
           /\ checked.token = token
           /\ headers = token
           /\ lastCheck.result =>
                  /\ lastExchange.status = "ok"
                  /\ lastExchange.at = lastCheck.at
                  /\ token = issued

\* a download GET has been sent whose check found the token expired
C5_Witness ==
    /\ pc \in {"dl_begin", "done"}
    /\ lastReq.kind = "download"
    /\ lastCheck.result
    /\ lastReq.auth = token
    /\ exchanges >= 2

\* C6: the check-and-refresh step performed twice in immediate succession,
\* with no time elapsing and a positive lifetime, performs at most one token
\* exchange, and leaves the token and the expiry as the first step left them.
C6_EnsureFreshIdempotent ==
    (lastOp.op = "ensure" /\ lastOp.prev = "ensure") =>
        /\ ~lastOp.posted
        /\ token = lastOp.tokenBefore
        /\ expiry_time = lastOp.expiryBefore

\* two steps in succession, the first of which exchanged the token
C6_Witness ==
    /\ lastOp.op = "ensure"
    /\ lastOp.prev = "ensure"
    /\ lastOp.prevPosted
    /\ lastOp.exc = "none"
    /\ token # None

\* C7: when a token exchange gets a non-2xx response or cannot reach the
\* endpoint, the process terminates with a failure status, the stored token
\* and expiry are those from before the exchange, and no list or download
\* request is issued afterwards.
C7_TokenFailureFatal ==
    ExchangeFailed =>
        /\ pc = "exit"
        /\ exit_status = 1
        /\ token = lastExchange.tokenBefore
        /\ expiry_time = lastExchange.expiryBefore
        /\ listCount = lastExchange.listBefore
        /\ dlCount = lastExchange.dlBefore

\* a refresh inside the pagination loop has failed
C7_Witness ==
    /\ ExchangeFailed
    /\ exchanges >= 2
    /\ listCount >= 1
    /\ token # None

\* C8: when the list GET of any page returns a non-2xx status the process
\* terminates with a failure status, get_recording_list returns nothing to
\* main, and no download request is issued, whatever was accumulated.
C8_ListingFailureFatal ==
    lastResp.status = "http_error" =>
        /\ pc = "exit"
        /\ exit_status = 1
        /\ fatal = "SystemExit"
        /\ idx = 0
        /\ dlCount = 0

\* a later list GET failed with recordings already accumulated
C8_Witness ==
    /\ lastResp.status = "http_error"
    /\ listCount >= 2
    /\ recording_list # <<>>

EmptyPageWithCursor ==
    /\ lastResp.status = "ok"
    /\ lastResp.recordings = <<>>
    /\ lastResp.cursor \notin {EmptyCursor, KeyAbsent}

\* C9: after a list response with zero recordings and a non-empty cursor,
\* get_recording_list does not return: until the next list GET the process
\* is in the pagination loop, on its way to that GET, unless a failed token
\* refresh has ended it.
C9_EmptyPageContinues ==
    EmptyPageWithCursor => (InListLoop \/ EndedByTokenFailure)

\* a further list GET was sent after an empty page with a cursor
C9_Witness ==
    /\ EmptyPageWithCursor
    /\ listCount >= 2
    /\ pageSizes[1] = 0
    /\ pc = "list_check"

\* C10: a successful list response with an empty cursor, or with no cursor
\* field at all, ends the loop and get_recording_list returns the recordings
\* accumulated; a successful response with a non-empty cursor never ends it.
C10_EmptyOrAbsentCursorEnds ==
    /\ (lastResp.status = "ok" /\ lastResp.cursor \in {EmptyCursor, KeyAbsent})
           => (AfterListing \/ (pc = "exit" /\ fatal # "KeyError"))
    /\ (lastResp.status = "ok" /\ lastResp.cursor \notin {EmptyCursor, KeyAbsent})
           => ~AfterListing

Attempts == 1..Len(dlLog)
InDownload == pc \in {"dl_begin", "dl_check", "dl_get"}

C12_TransientFailureDoesNotAbort ==
    \A i \in Attempts :
        dlLog[i].status = "conn_error" =>
          /\ dlLog[i].exc = "none"
          /\ pc # "exit"

\* C13: download yields a success result only when the response had a
\* success status and the file was written, an error result when the
\* response was non-2xx, and at the end of the batch the recordings reported
\* as failed are exactly those whose download did not succeed.
C13_OutcomeReportedFaithfully ==
    /\ \A i \in Attempts :
         /\ dlLog[i].returned =>
              (dlLog[i].status = "ok" /\ dlLog[i].after = "new")
         /\ dlLog[i].status = "http_error" => ~dlLog[i].returned
    /\ pc = "done" =>
         ReportedFailures = { dlLog[i].rec : i \in { k \in Attempts : dlLog[k].status # "ok" } }

\* C16: every list GET carries the from, to and channel_type parameters and
\* a cursor parameter: the empty cursor on the first request, afterwards the
\* cursor returned by the preceding response.
C16_ListRequestCarriesParameters ==
    lastReq.kind = "list" =>
        /\ {"from", "to", "channel_type", "next_page_token"} \subseteq lastReq.query
        /\ lastReq.cursor = lastReq.prevCursor

\* C17: no download GET is sent before the listing has ended with its last
\* response, no list GET is sent after a download GET, the downloads follow
\* the order of the returned list, and a run that reaches its end has
\* attempted each listed recording exactly once.
C17_ListThenDownloadInOrder ==
    /\ dlCount > 0 =>
         /\ lastReq.kind = "download"
         /\ lastResp.status = "ok"
         /\ lastResp.cursor = EmptyCursor
         /\ ~InListLoop
    /\ Len(dlLog) = dlCount
    /\ Len(dlLog) =< Len(recording_list)
    /\ \A i \in Attempts : dlLog[i].rec = recording_list[i]
    /\ (pc = "done" /\ recording_list # <<>>) =>
         Len(dlLog) = Len(recording_list)

\* a run over two recordings has reached its end
C17_Witness ==
    /\ pc = "done"
    /\ Len(recording_list) >= 2
    /\ Len(dlLog) = Len(recording_list)
    /\ listCount >= 1

\* C18: when the target directory is missing and cannot be created the
\* process terminates with a failure status at the first download, before
\* any download GET; path.mkdir is called at most once in a run.
C18_DirectoryFailureBeforeDownloads ==
    /\ dirState = "denied" =>
         /\ dlCount = 0
         /\ files = NoFiles
         /\ pc \notin {"dl_check", "dl_get"}
         /\ mkdirs > 0 => (pc = "exit" /\ exit_status = 1 /\ fatal = "SystemExit")
    /\ mkdirs =< 1

\* the listing returned two recordings and creating the directory failed
C18_Witness ==
    /\ pc = "exit"
    /\ dirState = "denied"
    /\ mkdirs = 1
    /\ Len(recording_list) >= 2
    /\ lastResp.status = "ok"

\* C19: a download that gets a non-2xx status leaves the file system as it
\* was: no file of the recording's name is created, and one already there
\* keeps its content.
C19_FailedDownloadLeavesFiles ==
    \A i \in Attempts :
        dlLog[i].status = "http_error" =>
          /\ dlLog[i].after = dlLog[i].before
          /\ Content(files, FileOf(dlLog[i].rec)) = dlLog[i].before

\* a download of a recording whose file was already there failed
C19_Witness ==
    \E i \in Attempts :
        /\ dlLog[i].status = "http_error"
        /\ dlLog[i].before = "old"
        /\ Content(files, FileOf(dlLog[i].rec)) = "old"

\* the names of the files of all the recordings the list endpoint holds
RecordingNames == { FileOf(AllRecordings[i]) : i \in 1..Len(AllRecordings) }

\* a request of the run has failed, or the process was ended
RunFailed == pc = "exit" \/ \E i \in Attempts : dlLog[i].status # "ok"

\* the model has stopped following the pagination loop
CutShort == pc = "list_check" /\ ~WithinBudget

\* the run is over, with one new file per recording and no failure reported
EndsWell ==
    /\ pc = "done"
    /\ DOMAIN files = RecordingNames
    /\ \A f \in DOMAIN files : files[f] = "new"
    /\ Len(dlLog) = Len(AllRecordings)
    /\ ReportedFailures = {}

\* C14: a run whose listing ends with an empty cursor, over any number of
\* pages, and whose requests all succeed, ends with exactly one file per
\* listed recording, named by the recording's filename, and no error.
C14_RunEndsWithOneFilePerRecording ==
    lastCursor = EmptyCursor => <>(RunFailed \/ CutShort \/ EndsWell)

\* the extension the claim gives for a channel type
ExpectedExt(channel_type) == IF channel_type = "voice" THEN "mp3" ELSE "mp4"

\* C15: the filename of a recording is start_time, "_", engagement_id, "_",
\* recording_id, ".", ext of the element it was built from, with ext "mp3"
\* exactly for channel_type voice and "mp4" otherwise; it stays so after
\* construction, through a download.
C15_FilenameDerivation ==
    recording # NoRecording =>
        /\ recording.start_time = element.recording_start_time
        /\ recording.engagement_id = element.engagement_id
        /\ recording.channel_type = element.channel_type
        /\ recording.recording_id = element.recording_id
        /\ recording.filename =
             <<element.recording_start_time, "_", element.engagement_id, "_",
               element.recording_id, ".", ExpectedExt(element.channel_type)>>
        /\ recording.filename[7] = "mp3" <=> element.channel_type = "voice"
        /\ \A i \in Attempts :
             dlLog[i].after # "absent" => recording.filename \in DOMAIN files

\* a chat recording was built, named .mp4, and its download saved the file
C15_Witness ==
    /\ recording.channel_type = "chat"
    /\ recording.filename[7] = "mp4"
    /\ Len(dlLog) = 1
    /\ dlLog[1].status = "ok"
    /\ recording.filename \in DOMAIN files

\* the weekdays a calendar week may start on: Monday or Sunday
WeekStarts == {0, 6}

\* C20: last_week returns the calendar week before the one holding the
\* current date: "from" is 00:00:00 on its first day, "to" is 23:59:59 on
\* its last day, the span is seven days, and the week holding the current
\* date starts on the day after "to".
C20_LastWeekIsPreviousWeek ==
    date_range # NoRange =>
        LET first == Ordinal(SubSeq(date_range.from, 1, 3))
            last == Ordinal(SubSeq(date_range.to, 1, 3))
        IN  /\ SubSeq(date_range.from, 4, 6) = <<0, 0, 0>>
            /\ SubSeq(date_range.to, 4, 6) = <<23, 59, 59>>
            /\ last = first + 6
            /\ weekday(first) \in WeekStarts
            /\ last + 1 <= date_today
            /\ date_today <= last + 7

====
